---- MODULE Spec2Model ----
(***************************************************************************)
(* Model of crates/crypto/src/manager.rs: Signer, ProxySigner and the      *)
(* SigningManager registry (consensus_signers, proxy_signers) with its     *)
(* operations.  Every public method of SigningManager is one action; the   *)
(* variable ret holds the call that was made last and what it returned.    *)
(*                                                                         *)
(* A &mut self method (add_*, create_proxy) holds the manager exclusively   *)
(* for the whole call; the &self methods only read, and the in-memory      *)
(* Signer::sign has no suspension point.  In Spec each action is one whole *)
(* call; SpecConc splits the async calls into their steps.                 *)
(***************************************************************************)
EXTENDS Integers, Sequences, FiniteSets, TLC

\* ------------------------------------------------------------------ bounds
NumSecrets == 2
NumMsgs == 2

\* ------------------------------------------------------------ value spaces
\* Valid secret scalars (SecretKey); 0 is not a valid secret key.
Secrets == 1..NumSecrets

\* The objects callers ask the manager to sign (impl ObjectTreeHash).
Msgs == 1..NumMsgs

\* Chain selects the signing domain; fixed when the manager is built.
Chains == {"Mainnet", "Holesky"}

\* Signer::Plain(secret)
Plain(sk) == [variant |-> "Plain", secret |-> sk]

\* Signer::new_random / Signer::new_from_bytes: any valid secret.
Signers == {Plain(sk) : sk \in Secrets}

\* secret.sk_to_pk() followed by blst_pubkey_to_alloy: injective, not the
\* secret itself.
pubkey(signer) == <<"pk", signer.secret>>

\* BlsPublicKey values callers may pass: the keys of the known secrets and
\* one key whose secret nobody holds.
Identities == {pubkey(s) : s \in Signers} \cup {<<"pk", 0>>}

\* ObjectTreeHash::tree_hash_root of the signed object.
tree_hash_root(msg) == <<"root", msg>>

\* sign_builder_message(chain, sk, msg): deterministic in the chain's builder
\* domain, the secret and the object's root.
sign_builder_message(c, sk, msg) ==
    [domain |-> <<"builder", c>>, sk |-> sk, root |-> tree_hash_root(msg)]

\* Verification of a builder-domain signature against a public key.
verify_signature(c, pk, msg, sig) ==
    /\ sig.domain = <<"builder", c>>
    /\ <<"pk", sig.sk>> = pk
    /\ sig.root = tree_hash_root(msg)

\* Signer::sign
sign(signer, c, msg) == sign_builder_message(c, signer.secret, msg)

\* ------------------------------------------------------------------ errors
UnknownConsensusSigner(pk) == [kind |-> "UnknownConsensusSigner", pubkey |-> pk]
UnknownProxySigner(pk) == [kind |-> "UnknownProxySigner", pubkey |-> pk]

Ok(v) == [ok |-> TRUE, val |-> v]
Err(e) == [ok |-> FALSE, err |-> e]

\* ------------------------------------------------------------ HashMap model
EmptyMap == [k \in {} |-> 0]

\* HashMap::insert: one entry per key, a later insert replaces the value.
insert(m, k, v) == [x \in DOMAIN m \cup {k} |-> IF x = k THEN v ELSE m[x]]

\* The orders in which a HashMap with key set S may be iterated.
iter_orders(S) ==
    {f \in [1..Cardinality(S) -> S] : \A i, j \in 1..Cardinality(S) : f[i] = f[j] => i = j}

\* ------------------------------------------------------------ the state
\* readers and writers hold the calls that have begun and not yet returned:
\* readers the sign_* futures (each borrows the manager shared), writers the
\* create_proxy futures (each borrows it exclusively).
VARIABLES chain, consensus_signers, proxy_signers, ret, readers, writers

vars == <<chain, consensus_signers, proxy_signers, ret, readers, writers>>

Call(op, arg, msg, result) == [op |-> op, arg |-> arg, msg |-> msg, result |-> result]

\* ProxyDelegation / SignedProxyDelegation / ProxySigner
ProxyDelegation(delegator, proxy) == [delegator |-> delegator, proxy |-> proxy]
SignedProxyDelegation(signature, message) == [signature |-> signature, message |-> message]
ProxySigner(signer, delegation) == [signer |-> signer, delegation |-> delegation]

\* ------------------------------------------------- SigningManager methods
\* Each method is a function of the maps (and chain); a &mut method returns
\* the new map together with its result.

\* Variant: a signer whose key is already present takes the entry out.
add_consensus_signer_Toggle(cs, signer) ==
    IF pubkey(signer) \in DOMAIN cs
    THEN [x \in DOMAIN cs \ {pubkey(signer)} |-> cs[x]]
    ELSE insert(cs, pubkey(signer), signer)

\* Variant: the map is rebuilt from the new signer alone.
add_consensus_signer_Replace(cs, signer) == insert(EmptyMap, pubkey(signer), signer)

add_consensus_signer(cs, signer) == insert(cs, pubkey(signer), signer)

\* Variant: the entry is keyed by the delegator named in the delegation.
add_proxy_signer_KeyedByDelegator(ps, proxy) ==
    insert(ps, proxy.delegation.message.delegator, proxy)

\* Variant: an entry already stored under the key is kept (or_insert).
add_proxy_signer_KeepOld(ps, proxy) ==
    IF pubkey(proxy.signer) \in DOMAIN ps THEN ps ELSE insert(ps, pubkey(proxy.signer), proxy)

\* ProxySigner's fields are private to manager.rs, the only place that builds
\* one is create_proxy, and the value is moved into the map there; no caller
\* outside create_proxy holds a ProxySigner to pass, so this method has no
\* action of its own.
add_proxy_signer(ps, proxy) == insert(ps, pubkey(proxy.signer), proxy)

\* Variant: the failure is reported with the proxy registry's error.
sign_consensus_WrongError(c, cs, pk, msg) ==
    IF pk \in DOMAIN cs
    THEN Ok(sign(cs[pk], c, msg))
    ELSE Err(UnknownProxySigner(pk))

\* Variant: a key missing from the consensus map is looked up among the
\* proxy signers.
sign_consensus_FallbackProxy(c, cs, pk, msg) ==
    IF pk \in DOMAIN cs
    THEN Ok(sign(cs[pk], c, msg))
    ELSE IF pk \in DOMAIN proxy_signers
         THEN Ok(sign(proxy_signers[pk].signer, c, msg))
         ELSE Err(UnknownConsensusSigner(pk))

sign_consensus(c, cs, pk, msg) ==
    IF pk \in DOMAIN cs
    THEN Ok(sign(cs[pk], c, msg))
    ELSE Err(UnknownConsensusSigner(pk))

sign_proxy(c, ps, pk, msg) ==
    IF pk \in DOMAIN ps
    THEN Ok(sign(ps[pk].signer, c, msg))
    ELSE Err(UnknownProxySigner(pk))

\* Variant: the new ProxySigner is never stored.
create_proxy_NoInsert(c, cs, ps, delegator, signer) ==
    LET message == ProxyDelegation(delegator, pubkey(signer))
        signed == sign_consensus(c, cs, delegator, message)
    IN  IF ~signed.ok
        THEN [result |-> signed, proxy_signers |-> ps]
        ELSE [result |-> Ok(SignedProxyDelegation(signed.val, message)), proxy_signers |-> ps]

\* Variant: the delegation is signed by the new proxy key itself.
create_proxy_SelfSigned(c, cs, ps, delegator, signer) ==
    LET message == ProxyDelegation(delegator, pubkey(signer))
        signed == sign_consensus(c, cs, delegator, message)
    IN  IF ~signed.ok
        THEN [result |-> signed, proxy_signers |-> ps]
        ELSE LET signed_delegation == SignedProxyDelegation(sign(signer, c, message), message)
             IN  [result |-> Ok(signed_delegation),
                  proxy_signers |-> add_proxy_signer(ps, ProxySigner(signer, signed_delegation))]

\* Variant: the new signer is stored before the delegator is looked up, so a
\* failed call leaves it behind.
create_proxy_InsertBeforeSign(c, cs, ps, delegator, signer) ==
    LET message == ProxyDelegation(delegator, pubkey(signer))
        signed == sign_consensus(c, cs, delegator, message)
        placeholder == SignedProxyDelegation(sign(signer, c, message), message)
    IN  IF ~signed.ok
        THEN [result |-> signed,
              proxy_signers |-> add_proxy_signer(ps, ProxySigner(signer, placeholder))]
        ELSE LET signed_delegation == SignedProxyDelegation(signed.val, message)
             IN  [result |-> Ok(signed_delegation),
                  proxy_signers |-> add_proxy_signer(ps, ProxySigner(signer, signed_delegation))]

\* Variant: the two fields of the delegation message are swapped.
create_proxy_SwappedFields(c, cs, ps, delegator, signer) ==
    LET message == ProxyDelegation(pubkey(signer), delegator)
        signed == sign_consensus(c, cs, delegator, message)
    IN  IF ~signed.ok
        THEN [result |-> signed, proxy_signers |-> ps]
        ELSE LET signed_delegation == SignedProxyDelegation(signed.val, message)
             IN  [result |-> Ok(signed_delegation),
                  proxy_signers |-> add_proxy_signer(ps, ProxySigner(signer, signed_delegation))]

\* Variant: a delegator the manager does not hold gets a proxy all the same,
\* its delegation signed by the new key.
create_proxy_UnregisteredDelegator(c, cs, ps, delegator, signer) ==
    LET message == ProxyDelegation(delegator, pubkey(signer))
        signed == sign_consensus(c, cs, delegator, message)
        signature == IF signed.ok THEN signed.val ELSE sign(signer, c, message)
        signed_delegation == SignedProxyDelegation(signature, message)
    IN  [result |-> Ok(signed_delegation),
         proxy_signers |-> add_proxy_signer(ps, ProxySigner(signer, signed_delegation))]

\* Variant: a delegator keeps one proxy; its older proxies are dropped.
create_proxy_DropSameDelegator(c, cs, ps, delegator, signer) ==
    LET message == ProxyDelegation(delegator, pubkey(signer))
        signed == sign_consensus(c, cs, delegator, message)
        kept == {k \in DOMAIN ps : ps[k].delegation.message.delegator # delegator}
    IN  IF ~signed.ok
        THEN [result |-> signed, proxy_signers |-> ps]
        ELSE LET signed_delegation == SignedProxyDelegation(signed.val, message)
             IN  [result |-> Ok(signed_delegation),
                  proxy_signers |-> add_proxy_signer([k \in kept |-> ps[k]],
                                                     ProxySigner(signer, signed_delegation))]

\* Variant: the older proxies of the delegator are given the new delegation.
create_proxy_RelabelDelegations(c, cs, ps, delegator, signer) ==
    LET message == ProxyDelegation(delegator, pubkey(signer))
        signed == sign_consensus(c, cs, delegator, message)
    IN  IF ~signed.ok
        THEN [result |-> signed, proxy_signers |-> ps]
        ELSE LET signed_delegation == SignedProxyDelegation(signed.val, message)
                 relabelled == [k \in DOMAIN ps |->
                                  IF ps[k].delegation.message.delegator = delegator
                                  THEN ProxySigner(ps[k].signer, signed_delegation)
                                  ELSE ps[k]]
             IN  [result |-> Ok(signed_delegation),
                  proxy_signers |-> add_proxy_signer(relabelled,
                                                     ProxySigner(signer, signed_delegation))]

\* create_proxy with the signer that Signer::new_random() produced.
create_proxy(c, cs, ps, delegator, signer) ==
    LET message == ProxyDelegation(delegator, pubkey(signer))
        signed == sign_consensus(c, cs, delegator, message)
    IN  IF ~signed.ok
        THEN [result |-> signed, proxy_signers |-> ps]
        ELSE LET signed_delegation == SignedProxyDelegation(signed.val, message)
                 proxy_signer == ProxySigner(signer, signed_delegation)
             IN  [result |-> Ok(signed_delegation),
                  proxy_signers |-> add_proxy_signer(ps, proxy_signer)]

\* Variant: the keys of both maps are listed.
consensus_pubkeys_AllKeys(cs) == iter_orders(DOMAIN cs \cup DOMAIN proxy_signers)

\* The vectors consensus_pubkeys() may return (HashMap order is unspecified).
consensus_pubkeys(cs) == iter_orders(DOMAIN cs)

proxy_pubkeys(ps) == iter_orders(DOMAIN ps)

\* Variant: one delegation per delegator instead of one per proxy.
delegations_PerDelegator(ps) ==
    LET first == {k \in DOMAIN ps :
                    \A k2 \in DOMAIN ps :
                        ps[k2].delegation.message.delegator = ps[k].delegation.message.delegator
                            => k[2] <= k2[2]}
    IN  {[i \in 1..Len(o) |-> ps[o[i]].delegation] : o \in iter_orders(first)}

delegations(ps) ==
    {[i \in 1..Len(o) |-> ps[o[i]].delegation] : o \in iter_orders(DOMAIN ps)}

has_consensus(cs, pk) == pk \in DOMAIN cs

has_proxy(ps, pk) == pk \in DOMAIN ps

\* Variant: the failure is reported with the consensus registry's error.
get_delegation_WrongError(ps, pk) ==
    IF pk \in DOMAIN ps
    THEN Ok(ps[pk].delegation)
    ELSE Err(UnknownConsensusSigner(pk))

get_delegation(ps, pk) ==
    IF pk \in DOMAIN ps
    THEN Ok(ps[pk].delegation)
    ELSE Err(UnknownProxySigner(pk))

\* ------------------------------------------------------------------ actions
\* SigningManager::new(chain)
Init ==
    /\ chain \in Chains
    /\ consensus_signers = EmptyMap
    /\ proxy_signers = EmptyMap
    /\ ret = Call("new", "none", "none", Ok("unit"))
    /\ readers = {}
    /\ writers = {}

AddConsensusSigner ==
    \E signer \in Signers :
        /\ consensus_signers' = add_consensus_signer(consensus_signers, signer)
        /\ ret' = Call("add_consensus_signer", signer, "none", Ok("unit"))
        /\ UNCHANGED <<chain, proxy_signers, readers, writers>>

CreateProxy ==
    \E delegator \in Identities, signer \in Signers :
        LET r == create_proxy(chain, consensus_signers, proxy_signers, delegator, signer)
        IN  /\ proxy_signers' = r.proxy_signers
            /\ ret' = Call("create_proxy", delegator, "none", r.result)
            /\ UNCHANGED <<chain, consensus_signers, readers, writers>>

SignConsensus ==
    \E pk \in Identities, msg \in Msgs :
        /\ ret' = Call("sign_consensus", pk, msg, sign_consensus(chain, consensus_signers, pk, msg))
        /\ UNCHANGED <<chain, consensus_signers, proxy_signers, readers, writers>>

SignProxy ==
    \E pk \in Identities, msg \in Msgs :
        /\ ret' = Call("sign_proxy", pk, msg, sign_proxy(chain, proxy_signers, pk, msg))
        /\ UNCHANGED <<chain, consensus_signers, proxy_signers, readers, writers>>

ConsensusPubkeys ==
    \E v \in consensus_pubkeys(consensus_signers) :
        /\ ret' = Call("consensus_pubkeys", "none", "none", Ok(v))
        /\ UNCHANGED <<chain, consensus_signers, proxy_signers, readers, writers>>

ProxyPubkeys ==
    \E v \in proxy_pubkeys(proxy_signers) :
        /\ ret' = Call("proxy_pubkeys", "none", "none", Ok(v))
        /\ UNCHANGED <<chain, consensus_signers, proxy_signers, readers, writers>>

Delegations ==
    \E v \in delegations(proxy_signers) :
        /\ ret' = Call("delegations", "none", "none", Ok(v))
        /\ UNCHANGED <<chain, consensus_signers, proxy_signers, readers, writers>>

HasConsensus ==
    \E pk \in Identities :
        /\ ret' = Call("has_consensus", pk, "none", Ok(has_consensus(consensus_signers, pk)))
        /\ UNCHANGED <<chain, consensus_signers, proxy_signers, readers, writers>>

HasProxy ==
    \E pk \in Identities :
        /\ ret' = Call("has_proxy", pk, "none", Ok(has_proxy(proxy_signers, pk)))
        /\ UNCHANGED <<chain, consensus_signers, proxy_signers, readers, writers>>

GetDelegation ==
    \E pk \in Identities :
        /\ ret' = Call("get_delegation", pk, "none", get_delegation(proxy_signers, pk))
        /\ UNCHANGED <<chain, consensus_signers, proxy_signers, readers, writers>>

Next ==
    \/ AddConsensusSigner
    \/ CreateProxy
    \/ SignConsensus
    \/ SignProxy
    \/ ConsensusPubkeys
    \/ ProxyPubkeys
    \/ Delegations
    \/ HasConsensus
    \/ HasProxy
    \/ GetDelegation

Spec == Init /\ [][Next]_vars

\* ------------------------------------------- calls that overlap in time
\* SpecConc follows create_proxy statement by statement and keeps a sign_*
\* future alive between its creation and the poll that runs it.  Which calls
\* may be alive together is what the receivers allow: any number of &self
\* borrows, or one &mut self borrow and nothing else.

MaxInFlight == 2

\* The object the overlapping sign calls sign; it plays no part in which
\* calls may overlap.
ConcMsgs == {1}

\* Variant: a sign call waits until no other call is alive (one lock around
\* the whole manager).
shared_borrow_Mutex(rd, wr) == rd = {} /\ wr = {}

\* &self: allowed while no &mut self borrow is alive.
shared_borrow_free(rd, wr) == wr = {}

\* &mut self: allowed while no borrow at all is alive.
exclusive_borrow_free(rd, wr) == rd = {} /\ wr = {}

\* Variant: the new signer is stored as soon as it is generated, with an
\* all-zero signature in place of the delegator's.
create_proxy_begin_EarlyInsert(c, ps, delegator, signer) ==
    LET message == ProxyDelegation(delegator, pubkey(signer))
        unsigned == SignedProxyDelegation(sign_builder_message(c, 0, message), message)
    IN  [call |-> [delegator |-> delegator, signer |-> signer,
                   message |-> message, signed |-> <<>>],
         proxy_signers |-> add_proxy_signer(ps, ProxySigner(signer, unsigned))]

\* create_proxy up to the await: the new signer and the delegation message.
create_proxy_begin(c, ps, delegator, signer) ==
    [call |-> [delegator |-> delegator, signer |-> signer,
               message |-> ProxyDelegation(delegator, pubkey(signer)), signed |-> <<>>],
     proxy_signers |-> ps]

\* Variant: the error of sign_consensus is not propagated; the call goes on
\* with a signature of the new key.
create_proxy_sign_NoPropagate(c, cs, w) ==
    LET signed == sign_consensus(c, cs, w.delegator, w.message)
    IN  IF signed.ok
        THEN [result |-> signed, call |-> [w EXCEPT !.signed = <<signed.val>>]]
        ELSE [result |-> Ok(sign(w.signer, c, w.message)),
              call |-> [w EXCEPT !.signed = <<sign(w.signer, c, w.message)>>]]

\* self.sign_consensus(&delegator, &message).await?
create_proxy_sign(c, cs, w) ==
    LET signed == sign_consensus(c, cs, w.delegator, w.message)
    IN  [result |-> signed,
         call |-> IF signed.ok THEN [w EXCEPT !.signed = <<signed.val>>] ELSE w]

\* Variant: a delegator keeps one proxy; its older proxies are dropped.
create_proxy_insert_OnePerDelegator(ps, w) ==
    LET signed_delegation == SignedProxyDelegation(w.signed[1], w.message)
        kept == {k \in DOMAIN ps : ps[k].delegation.message.delegator # w.delegator}
    IN  [result |-> Ok(signed_delegation),
         proxy_signers |-> add_proxy_signer([k \in kept |-> ps[k]],
                                            ProxySigner(w.signer, signed_delegation))]

\* The rest of create_proxy: build the ProxySigner, insert it, return.
create_proxy_insert(ps, w) ==
    LET signed_delegation == SignedProxyDelegation(w.signed[1], w.message)
    IN  [result |-> Ok(signed_delegation),
         proxy_signers |-> add_proxy_signer(ps, ProxySigner(w.signer, signed_delegation))]

SignCall(op, pk, msg) == [op |-> op, arg |-> pk, msg |-> msg]

\* The result of polling a sign_* future.
poll_sign(c, cs, ps, call) ==
    IF call.op = "sign_consensus"
    THEN sign_consensus(c, cs, call.arg, call.msg)
    ELSE sign_proxy(c, ps, call.arg, call.msg)

\* A sign_consensus / sign_proxy future is created.
BeginSign(op, pk, msg) ==
    /\ shared_borrow_free(readers, writers)
    /\ Cardinality(readers) < MaxInFlight
    /\ readers' = readers \cup {SignCall(op, pk, msg)}
    /\ UNCHANGED <<chain, consensus_signers, proxy_signers, ret, writers>>

\* The future is polled: lookup, Signer::sign, return.
CompleteSign(call) ==
    /\ call \in readers
    /\ readers' = readers \ {call}
    /\ ret' = Call(call.op, call.arg, call.msg,
                   poll_sign(chain, consensus_signers, proxy_signers, call))
    /\ UNCHANGED <<chain, consensus_signers, proxy_signers, writers>>

ConcBeginSign ==
    \E op \in {"sign_consensus", "sign_proxy"}, pk \in Identities, msg \in ConcMsgs :
        BeginSign(op, pk, msg)

ConcCompleteSign == \E call \in readers : CompleteSign(call)

ConcAddConsensusSigner ==
    /\ exclusive_borrow_free(readers, writers)
    /\ AddConsensusSigner

BeginCreateProxy ==
    \E delegator \in Identities, signer \in Signers :
        /\ exclusive_borrow_free(readers, writers)
        /\ LET r == create_proxy_begin(chain, proxy_signers, delegator, signer)
           IN  /\ writers' = writers \cup {r.call}
               /\ proxy_signers' = r.proxy_signers
        /\ UNCHANGED <<chain, consensus_signers, ret, readers>>

SignDelegation ==
    \E w \in writers :
        /\ w.signed = <<>>
        /\ LET r == create_proxy_sign(chain, consensus_signers, w)
           IN  IF r.result.ok
               THEN /\ writers' = (writers \ {w}) \cup {r.call}
                    /\ UNCHANGED ret
               ELSE /\ writers' = writers \ {w}
                    /\ ret' = Call("create_proxy", w.delegator, "none", r.result)
        /\ UNCHANGED <<chain, consensus_signers, proxy_signers, readers>>

InsertDelegation ==
    \E w \in writers :
        /\ w.signed # <<>>
        /\ LET r == create_proxy_insert(proxy_signers, w)
           IN  /\ proxy_signers' = r.proxy_signers
               /\ ret' = Call("create_proxy", w.delegator, "none", r.result)
        /\ writers' = writers \ {w}
        /\ UNCHANGED <<chain, consensus_signers, readers>>

\* The readers without an await run in one step whenever &self is allowed.
ConcHasProxy ==
    /\ shared_borrow_free(readers, writers)
    /\ HasProxy

ConcGetDelegation ==
    /\ shared_borrow_free(readers, writers)
    /\ GetDelegation

ConcProxyPubkeys ==
    /\ shared_borrow_free(readers, writers)
    /\ ProxyPubkeys

NextConc ==
    \/ ConcAddConsensusSigner
    \/ BeginCreateProxy
    \/ SignDelegation
    \/ InsertDelegation
    \/ ConcBeginSign
    \/ ConcCompleteSign
    \/ ConcHasProxy
    \/ ConcGetDelegation
    \/ ConcProxyPubkeys

SpecConc == Init /\ [][NextConc]_vars

\* ---------------------------------------------------------------- properties

\* C1: sign_consensus(P, _) and create_proxy(P) for an identity P that is not
\* a key of the consensus map (no entry is ever removed, so this covers every
\* P that was never inserted) fail with UnknownConsensusSigner carrying P.
C1_UnknownConsensusSigner ==
    (ret.op \in {"sign_consensus", "create_proxy"} /\ ret.arg \notin DOMAIN consensus_signers)
        => (~ret.result.ok /\ ret.result.err = UnknownConsensusSigner(ret.arg))

C1_Witness ==
    /\ ret.op = "create_proxy"
    /\ ret.arg \notin DOMAIN consensus_signers
    /\ DOMAIN consensus_signers # {}
    /\ DOMAIN proxy_signers # {}

\* C2: sign_proxy(P, _) and get_delegation(P) for an identity P that is not a
\* key of the proxy map fail with UnknownProxySigner carrying P.
C2_UnknownProxySigner ==
    (ret.op \in {"sign_proxy", "get_delegation"} /\ ret.arg \notin DOMAIN proxy_signers)
        => (~ret.result.ok /\ ret.result.err = UnknownProxySigner(ret.arg))

C2_Witness ==
    /\ ret.op = "get_delegation"
    /\ ret.arg \notin DOMAIN proxy_signers
    /\ ret.arg \in DOMAIN consensus_signers
    /\ DOMAIN proxy_signers # {}

\* C3: right after create_proxy(D) returned Ok(R): R names D as delegator,
\* has_proxy(R.message.proxy) is true and get_delegation(R.message.proxy)
\* returns R.
C3_CreateProxyResult ==
    (ret.op = "create_proxy" /\ ret.result.ok) =>
        LET R == ret.result.val
        IN  /\ R.message.delegator = ret.arg
            /\ has_proxy(proxy_signers, R.message.proxy)
            /\ get_delegation(proxy_signers, R.message.proxy) = Ok(R)

C3_Witness ==
    /\ ret.op = "create_proxy"
    /\ ret.result.ok
    /\ Cardinality(DOMAIN proxy_signers) >= 2

\* C4: the signature of a delegation returned by create_proxy(D) is the one
\* the consensus signer stored under D produces over the message
\* {delegator: D, proxy: new key} under the manager's chain; it is not the
\* signature of another chain, of a consensus signer stored under another
\* identity, or of the new proxy key (where that key is a different key).
C4_SignedByDelegator ==
    (ret.op = "create_proxy" /\ ret.result.ok) =>
        LET R == ret.result.val
            D == ret.arg
            new_signer == proxy_signers[R.message.proxy].signer
        IN  /\ D \in DOMAIN consensus_signers
            /\ R.message = ProxyDelegation(D, pubkey(new_signer))
            /\ R.signature = sign(consensus_signers[D], chain, R.message)
            /\ verify_signature(chain, D, R.message, R.signature)
            /\ \A c \in Chains \ {chain} :
                    R.signature # sign(consensus_signers[D], c, R.message)
            /\ \A K \in DOMAIN consensus_signers \ {D} :
                    R.signature # sign(consensus_signers[K], chain, R.message)
            /\ pubkey(new_signer) # D => R.signature # sign(new_signer, chain, R.message)

C4_Witness ==
    /\ ret.op = "create_proxy"
    /\ ret.result.ok
    /\ ret.result.val.message.proxy # ret.arg
    /\ Cardinality(DOMAIN consensus_signers) >= 2

\* C5: a call that returns an error leaves the chain and both maps as they
\* were, so the state every later call starts from is the state before the
\* failed call.
C5_ErrorLeavesMaps ==
    [][~ret'.result.ok => UNCHANGED <<chain, consensus_signers, proxy_signers>>]_vars

C5_Witness ==
    /\ ret.op = "create_proxy"
    /\ ~ret.result.ok
    /\ DOMAIN consensus_signers # {}
    /\ Cardinality(DOMAIN proxy_signers) = 1

\* C6: the vector delegations() returns holds the delegation of every key of
\* the proxy map exactly once and nothing else, in whatever order the map is
\* iterated; it is as long as any vector proxy_pubkeys() returns.
C6_DelegationsExact ==
    ret.op = "delegations" =>
        LET v == ret.result.val
        IN  /\ Len(v) = Cardinality(DOMAIN proxy_signers)
            /\ \A i \in 1..Len(v) : \E k \in DOMAIN proxy_signers : v[i] = proxy_signers[k].delegation
            /\ \A k \in DOMAIN proxy_signers :
                    Cardinality({i \in 1..Len(v) : v[i] = proxy_signers[k].delegation}) = 1
            /\ \A pks \in proxy_pubkeys(proxy_signers) : Len(pks) = Len(v)

C6_Witness ==
    /\ ret.op = "delegations"
    /\ Len(ret.result.val) >= 2
    /\ ret.result.val[1].message.delegator = ret.result.val[2].message.delegator

\* C7: add_consensus_signer with a signer whose public key is already a key
\* of the consensus map leaves the key set, hence the size and the possible
\* results of consensus_pubkeys(), as they were, and the entry under that key
\* is the signer just passed.
C7_AddConsensusIdempotent ==
    [][(ret'.op = "add_consensus_signer" /\ pubkey(ret'.arg) \in DOMAIN consensus_signers) =>
            /\ DOMAIN consensus_signers' = DOMAIN consensus_signers
            /\ Cardinality(DOMAIN consensus_signers') = Cardinality(DOMAIN consensus_signers)
            /\ consensus_pubkeys(consensus_signers') = consensus_pubkeys(consensus_signers)
            /\ consensus_signers'[pubkey(ret'.arg)] = ret'.arg]_vars

\* The last call re-registered a key that an earlier create_proxy already
\* used as delegator.
C7_Witness ==
    /\ ret.op = "add_consensus_signer"
    /\ \E k \in DOMAIN proxy_signers :
            proxy_signers[k].delegation.message.delegator = pubkey(ret.arg)
    /\ Cardinality(DOMAIN consensus_signers) >= 2

\* C8: every stored ProxySigner's delegation names the public key of its own
\* signer as proxy, and get_delegation(K).message.proxy = K for every key K
\* of the proxy map.
C8_DelegationNamesProxy ==
    \A K \in DOMAIN proxy_signers :
        /\ proxy_signers[K].delegation.message.proxy = pubkey(proxy_signers[K].signer)
        /\ get_delegation(proxy_signers, K).ok
        /\ get_delegation(proxy_signers, K).val.message.proxy = K

C8_Witness ==
    /\ Cardinality(DOMAIN proxy_signers) >= 2
    /\ \E K \in DOMAIN proxy_signers : proxy_signers[K].delegation.message.delegator # K

\* C9: every entry of either map is stored under the public key of its own
\* signer, and a signature returned by sign_proxy(K, M) or sign_consensus(K, M)
\* verifies against K and M under the manager's chain.
C9_KeyedByOwnPubkey ==
    /\ \A K \in DOMAIN proxy_signers : K = pubkey(proxy_signers[K].signer)
    /\ \A K \in DOMAIN consensus_signers : K = pubkey(consensus_signers[K])
    /\ (ret.op \in {"sign_proxy", "sign_consensus"} /\ ret.result.ok) =>
            verify_signature(chain, ret.arg, ret.msg, ret.result.val)

C9_Witness ==
    /\ ret.op = "sign_proxy"
    /\ ret.result.ok
    /\ proxy_signers[ret.arg].delegation.message.delegator # ret.arg

\* C10: no step removes a key from either map: has_consensus(P) and
\* has_proxy(P), once true, stay true.
C10_NoDeletion ==
    [][/\ DOMAIN consensus_signers \subseteq DOMAIN consensus_signers'
       /\ DOMAIN proxy_signers \subseteq DOMAIN proxy_signers'
       /\ \A P \in Identities :
            /\ has_consensus(consensus_signers, P) => has_consensus(consensus_signers', P)
            /\ has_proxy(proxy_signers, P) => has_proxy(proxy_signers', P)]_vars

C10_Witness ==
    /\ Cardinality(DOMAIN consensus_signers) >= 2
    /\ Cardinality(DOMAIN proxy_signers) >= 2
    /\ ret.op = "add_consensus_signer"

\* C11: the two registries are separate namespaces.  A key held only by the
\* consensus map is unknown to sign_proxy and get_delegation, a key held only
\* by the proxy map is unknown to sign_consensus and create_proxy, and
\* has_consensus / has_proxy answer from their own map alone.
C11_SeparateNamespaces ==
    /\ (/\ ret.op \in {"sign_proxy", "get_delegation"}
        /\ ret.arg \in DOMAIN consensus_signers
        /\ ret.arg \notin DOMAIN proxy_signers)
            => (~ret.result.ok /\ ret.result.err = UnknownProxySigner(ret.arg))
    /\ (/\ ret.op \in {"sign_consensus", "create_proxy"}
        /\ ret.arg \in DOMAIN proxy_signers
        /\ ret.arg \notin DOMAIN consensus_signers)
            => (~ret.result.ok /\ ret.result.err = UnknownConsensusSigner(ret.arg))
    /\ ret.op = "has_consensus" => ret.result.val = (ret.arg \in DOMAIN consensus_signers)
    /\ ret.op = "has_proxy" => ret.result.val = (ret.arg \in DOMAIN proxy_signers)

\* A proxy key that is no consensus key asked to mint a proxy of its own.
C11_Witness ==
    /\ ret.op = "create_proxy"
    /\ ret.arg \in DOMAIN proxy_signers
    /\ ret.arg \notin DOMAIN consensus_signers

\* An entry of the proxy map is whole: stored under its signer's key, with a
\* delegation that names that key and carries the delegator's signature.
WholeEntry(P) ==
    /\ pubkey(proxy_signers[P].signer) = P
    /\ proxy_signers[P].delegation.message.proxy = P
    /\ verify_signature(chain, proxy_signers[P].delegation.message.delegator,
                        proxy_signers[P].delegation.message,
                        proxy_signers[P].delegation.signature)

\* C12: in every state of every interleaving, also in the middle of a
\* create_proxy call, each key visible in the proxy map has its whole entry
\* (secret and signed delegation); no reader is alive while a create_proxy is,
\* and what has_proxy, sign_proxy, get_delegation and proxy_pubkeys reported
\* are keys with whole entries.
C12_NoPartialEntry ==
    /\ \A P \in DOMAIN proxy_signers : WholeEntry(P)
    /\ writers # {} => readers = {}
    /\ (ret.op = "has_proxy" /\ ret.result.val) => ret.arg \in DOMAIN proxy_signers
    /\ (ret.op \in {"sign_proxy", "get_delegation"} /\ ret.result.ok)
            => ret.arg \in DOMAIN proxy_signers
    /\ ret.op = "proxy_pubkeys" =>
            \A i \in 1..Len(ret.result.val) : ret.result.val[i] \in DOMAIN proxy_signers

\* A create_proxy call has generated its key and not yet signed or stored it,
\* while the map already holds another proxy.
C12_Witness ==
    /\ DOMAIN proxy_signers # {}
    /\ \E w \in writers : w.signed = <<>> /\ pubkey(w.signer) \notin DOMAIN proxy_signers

\* C13: while a sign call is alive, a sign call for any other key can begin
\* (up to MaxInFlight calls alive) and every call that is alive can be polled
\* to completion; a signature a sign call returned is the one the signer
\* stored under the key asked for produces for that object.
C13_SignCallsDoNotBlock ==
    /\ \A call \in readers :
            /\ ENABLED CompleteSign(call)
            /\ Cardinality(readers) < MaxInFlight =>
                    \A op \in {"sign_consensus", "sign_proxy"}, pk \in Identities \ {call.arg} :
                        ENABLED BeginSign(op, pk, call.msg)
    /\ (ret.op = "sign_consensus" /\ ret.result.ok) =>
            /\ ret.arg \in DOMAIN consensus_signers
            /\ ret.result.val =
                    sign_builder_message(chain, consensus_signers[ret.arg].secret, ret.msg)
    /\ (ret.op = "sign_proxy" /\ ret.result.ok) =>
            /\ ret.arg \in DOMAIN proxy_signers
            /\ ret.result.val =
                    sign_builder_message(chain, proxy_signers[ret.arg].signer.secret, ret.msg)

\* Two sign calls for different registered keys are alive together.
C13_Witness ==
    \E c1, c2 \in readers :
        /\ c1.arg # c2.arg
        /\ c1.op = "sign_consensus" /\ c1.arg \in DOMAIN consensus_signers
        /\ c2.op = "sign_proxy" /\ c2.arg \in DOMAIN proxy_signers

\* The step in which the create_proxy call w stores its entry and returns.
InsertStepOf(w) == w \in writers /\ w.signed # <<>> /\ w \notin writers'

\* C14: create_proxy calls do not overlap (each holds the manager
\* exclusively), and the step in which a call stores its entry is atomic: no
\* other call is alive, the entry pairs this call's signer with this call's
\* delegation, and no other key changes.  After it the call's result is
\* get_delegation of its own key, and the result of the preceding create_proxy
\* on the same delegator still is get_delegation of its key.
C14_CreateProxyCallsSerialized ==
    [][\A w \in writers : InsertStepOf(w) =>
            LET K == pubkey(w.signer)
                own == SignedProxyDelegation(w.signed[1], w.message)
            IN  /\ writers = {w} /\ readers = {}
                /\ DOMAIN proxy_signers' = DOMAIN proxy_signers \cup {K}
                /\ proxy_signers'[K] = ProxySigner(w.signer, own)
                /\ \A k \in DOMAIN proxy_signers \ {K} : proxy_signers'[k] = proxy_signers[k]
                /\ ret'.result = Ok(own)
                /\ get_delegation(proxy_signers', K) = ret'.result
                /\ (/\ ret.op = "create_proxy" /\ ret.result.ok
                    /\ ret.arg = w.delegator
                    /\ get_delegation(proxy_signers, ret.result.val.message.proxy) = ret.result)
                        => get_delegation(proxy_signers', ret.result.val.message.proxy) = ret.result
      ]_vars

\* Two create_proxy calls on one delegator have both returned.
C14_Witness ==
    /\ writers = {}
    /\ ret.op = "create_proxy" /\ ret.result.ok
    /\ \E k \in DOMAIN proxy_signers \ {ret.result.val.message.proxy} :
            proxy_signers[k].delegation.message.delegator = ret.arg

\* v lists the elements of S, each once.
Lists(v, S) == Len(v) = Cardinality(S) /\ {v[i] : i \in 1..Len(v)} = S

\* C15: a step of any call other than create_proxy and add_consensus_signer
\* (add_proxy_signer runs inside create_proxy) leaves chain and both maps
\* unchanged; and when a step changes a map, the vector that
\* consensus_pubkeys, proxy_pubkeys or delegations returned just before still
\* lists the map as it was before the step, not as it is after it.
C15_ReadersLeaveState ==
    [][/\ ret'.op \notin {"create_proxy", "add_consensus_signer"}
            => UNCHANGED <<chain, consensus_signers, proxy_signers>>
       /\ (ret.op = "consensus_pubkeys" /\ consensus_signers' # consensus_signers) =>
            /\ Lists(ret.result.val, DOMAIN consensus_signers)
            /\ ~Lists(ret.result.val, DOMAIN consensus_signers')
       /\ (ret.op = "proxy_pubkeys" /\ proxy_signers' # proxy_signers) =>
            /\ Lists(ret.result.val, DOMAIN proxy_signers)
            /\ DOMAIN proxy_signers' # DOMAIN proxy_signers
                    => ~Lists(ret.result.val, DOMAIN proxy_signers')
       /\ (ret.op = "delegations" /\ proxy_signers' # proxy_signers) =>
            /\ Lists(ret.result.val,
                     {proxy_signers[k].delegation : k \in DOMAIN proxy_signers})
            /\ ~Lists(ret.result.val,
                      {proxy_signers'[k].delegation : k \in DOMAIN proxy_signers'})
      ]_vars

\* A key list was returned and the manager can still register a further key.
C15_Witness ==
    /\ ret.op = "consensus_pubkeys"
    /\ Len(ret.result.val) = 1
    /\ DOMAIN proxy_signers # {}

\* C16: when the key of the ProxySigner that create_proxy passes to
\* add_proxy_signer is already a key of the proxy map, the map keeps its size,
\* get_delegation of the key returns the new delegation, the stored signer is
\* the new one, and the old delegation (where it differs from the new one) is
\* in no vector delegations() can return.
C16_InsertOverwrites ==
    [][\A w \in writers : (InsertStepOf(w) /\ pubkey(w.signer) \in DOMAIN proxy_signers) =>
            LET K == pubkey(w.signer)
                old == proxy_signers[K].delegation
                new == SignedProxyDelegation(w.signed[1], w.message)
            IN  /\ DOMAIN proxy_signers' = DOMAIN proxy_signers
                /\ Cardinality(DOMAIN proxy_signers') = Cardinality(DOMAIN proxy_signers)
                /\ get_delegation(proxy_signers', K) = Ok(new)
                /\ proxy_signers'[K].signer = w.signer
                /\ old # new =>
                        \A v \in delegations(proxy_signers') :
                            \A i \in 1..Len(v) : v[i] # old
      ]_vars

\* A create_proxy call is about to store a key the map already holds, with a
\* delegation of another delegator.
C16_Witness ==
    \E w \in writers :
        /\ w.signed # <<>>
        /\ pubkey(w.signer) \in DOMAIN proxy_signers
        /\ proxy_signers[pubkey(w.signer)].delegation.message.delegator # w.delegator

\* C17: create_proxy generates the key, then signs, then inserts.  A call
\* starts unsigned, becomes signed only by the delegator's consensus signer,
\* and the proxy map changes only in the step of a call that is signed; that
\* step stores the delegation it returns, and the outcome is that of
\* create_proxy taken as one call.
C17_GenerateSignInsert ==
    [][/\ \A w \in writers' \ writers :
            \/ w.signed = <<>> /\ w.message = ProxyDelegation(w.delegator, pubkey(w.signer))
            \/ /\ [w EXCEPT !.signed = <<>>] \in writers
               /\ w.delegator \in DOMAIN consensus_signers
               /\ w.signed = <<sign(consensus_signers[w.delegator], chain, w.message)>>
       /\ proxy_signers' # proxy_signers =>
            \E w \in writers :
                /\ InsertStepOf(w)
                /\ w.delegator \in DOMAIN consensus_signers
                /\ w.signed = <<sign(consensus_signers[w.delegator], chain, w.message)>>
                /\ ret'.op = "create_proxy" /\ ret'.result.ok
                /\ ret'.result.val = SignedProxyDelegation(w.signed[1], w.message)
                /\ proxy_signers'[pubkey(w.signer)].delegation = ret'.result.val
                /\ create_proxy(chain, consensus_signers, proxy_signers, w.delegator, w.signer)
                        = [result |-> ret'.result, proxy_signers |-> proxy_signers']
      ]_vars

\* A call has generated and signed its delegation and not yet stored it.
C17_Witness ==
    \E w \in writers :
        /\ w.signed # <<>>
        /\ pubkey(w.signer) \notin DOMAIN proxy_signers
        /\ w.delegator # pubkey(w.signer)

\* C18: the delegator named in every stored delegation is a key of the
\* consensus map.
C18_DelegatorRegistered ==
    \A K \in DOMAIN proxy_signers :
        /\ proxy_signers[K].delegation.message.delegator \in DOMAIN consensus_signers
        /\ has_consensus(consensus_signers, get_delegation(proxy_signers, K).val.message.delegator)

C18_Witness ==
    \E K1, K2 \in DOMAIN proxy_signers :
        proxy_signers[K1].delegation.message.delegator
            # proxy_signers[K2].delegation.message.delegator

\* C19: a successful create_proxy leaves the consensus map unchanged and
\* changes the proxy map at the new proxy's key only; add_consensus_signer
\* leaves the proxy map unchanged; a step that changes the proxy map
\* (add_proxy_signer) leaves the consensus map unchanged.
C19_Frames ==
    [][/\ (ret'.op = "create_proxy" /\ ret'.result.ok) =>
            LET K == ret'.result.val.message.proxy
            IN  /\ consensus_signers' = consensus_signers
                /\ DOMAIN proxy_signers' = DOMAIN proxy_signers \cup {K}
                /\ \A k \in DOMAIN proxy_signers \ {K} : proxy_signers'[k] = proxy_signers[k]
       /\ ret'.op = "add_consensus_signer" => proxy_signers' = proxy_signers
       /\ proxy_signers' # proxy_signers => consensus_signers' = consensus_signers
      ]_vars

C19_Witness ==
    /\ ret.op = "create_proxy" /\ ret.result.ok
    /\ Cardinality(DOMAIN proxy_signers) >= 2
    /\ Cardinality(DOMAIN consensus_signers) = 1

\* C20: a step that does not insert under the proxy key K leaves
\* get_delegation(K) as it was; such steps include add_consensus_signer for
\* the delegator and create_proxy for the same delegator with another key.
C20_DelegationStable ==
    [][\A K \in DOMAIN proxy_signers :
            ~(/\ ret'.op = "create_proxy" /\ ret'.result.ok
              /\ ret'.result.val.message.proxy = K)
                => /\ K \in DOMAIN proxy_signers'
                   /\ get_delegation(proxy_signers', K) = get_delegation(proxy_signers, K)
      ]_vars

\* The delegator of two stored proxies was registered again by the last call.
C20_Witness ==
    /\ ret.op = "add_consensus_signer"
    /\ Cardinality(DOMAIN proxy_signers) >= 2
    /\ \A k \in DOMAIN proxy_signers :
            proxy_signers[k].delegation.message.delegator = pubkey(ret.arg)

====
